---------------------------- MODULE Spec2Model ----------------------------
(***************************************************************************)
(* Model of the ticket classifier (day30_ticket_classifier), the Slack     *)
(* notifier with its retry loop (day1_slack_alert/slack_notifier.py), the  *)
(* incident webhook (day1_slack_alert/webhook_receiver.py) and the portal  *)
(* server (server.py).                                                     *)
(*                                                                         *)
(* Texts are turned into sequences of one-character strings, so that       *)
(* lower-casing, substring tests and the number pattern are computed as    *)
(* the code computes them.  Every handler is cut at its await points: one action    *)
(* runs a coroutine from one suspension point to the next.                 *)
(***************************************************************************)
EXTENDS Integers, Sequences, FiniteSets, TLC

(***************************************************************************)
(* Bounds of the model.                                                    *)
(***************************************************************************)
MaxBatch == 2
MaxWords == 2

(***************************************************************************)
(* A text is a TLA+ string; Chars gives its characters, on which the       *)
(* code's string operations are computed.                                  *)
(***************************************************************************)
Chars(text) == [i \in 1..Len(text) |-> SubSeq(text, i, i)]

(***************************************************************************)
(* Text helpers.                                                           *)
(***************************************************************************)
Upper == <<"A", "B", "C", "D", "E", "F", "G", "H", "I", "J", "K", "L", "M",
           "N", "O", "P", "Q", "R", "S", "T", "U", "V", "W", "X", "Y", "Z">>
Lower == <<"a", "b", "c", "d", "e", "f", "g", "h", "i", "j", "k", "l", "m",
           "n", "o", "p", "q", "r", "s", "t", "u", "v", "w", "x", "y", "z">>

\* str.lower() of one character
lowerChar(c) ==
    IF \E i \in 1..26 : Upper[i] = c
    THEN Lower[CHOOSE i \in 1..26 : Upper[i] = c]
    ELSE c

\* str.lower()
lower(s) == [i \in 1..Len(s) |-> lowerChar(s[i])]

\* Python's  word in text  on strings: word occurs as a substring
In(word, text) ==
    \E i \in 1..(Len(text) - Len(word) + 1) :
        SubSeq(text, i, i + Len(word) - 1) = word

\* any(word in text for word in words)
AnyIn(words, text) == \E w \in words : In(w, text)

(***************************************************************************)
(* Keyword lists of mock_ai_classification.                                *)
(***************************************************************************)
DataIntegrationWords ==
    { <<"s", "y", "n", "c">>,
      <<"i", "n", "t", "e", "g", "r", "a", "t", "i", "o", "n">>,
      <<"a", "p", "i">>,
      <<"c", "o", "n", "n", "e", "c", "t", "o", "r">>,
      <<"p", "l", "a", "t", "f", "o", "r", "m">>,
      <<"w", "o", "r", "k", "d", "a", "y">>,
      <<"d", "a", "t", "a">> }
DataIntegrationHigh ==
    { <<"f", "a", "i", "l", "e", "d">>,
      <<"s", "t", "o", "p", "p", "e", "d">>,
      <<"s", "t", "u", "c", "k">>,
      <<"e", "r", "r", "o", "r">> }
FormulaErrorWords ==
    { <<"f", "o", "r", "m", "u", "l", "a">>,
      <<"c", "a", "l", "c", "u", "l", "a", "t", "i", "o", "n">>,
      <<"l", "o", "g", "i", "c">>,
      <<"m", "a", "t", "h">>,
      <<"b", "a", "l", "a", "n", "c", "e">>,
      <<"w", "r", "o", "n", "g">>,
      <<"#", "r", "e", "f">> }
FormulaErrorHigh ==
    { <<"i", "n", "c", "o", "r", "r", "e", "c", "t">>,
      <<"c", "r", "i", "t", "i", "c", "a", "l">>,
      <<"w", "r", "o", "n", "g", " ", "n", "u", "m", "b", "e", "r", "s">> }
AccessControlWords ==
    { <<"a", "c", "c", "e", "s", "s">>,
      <<"p", "e", "r", "m", "i", "s", "s", "i", "o", "n">>,
      <<"l", "o", "g", "i", "n">>,
      <<"s", "e", "c", "u", "r", "i", "t", "y">>,
      <<"r", "o", "l", "e">> }

(***************************************************************************)
(* The number pattern  \$?(\d+(?:\.\d+)?)([kmb]?)  with re.IGNORECASE.     *)
(* A number is kept exact as  num / 10^dec * 10^exp.                       *)
(***************************************************************************)
Digits == <<"0", "1", "2", "3", "4", "5", "6", "7", "8", "9">>
IsDigit(c) == \E d \in 1..10 : Digits[d] = c
DigitVal(c) == (CHOOSE d \in 1..10 : Digits[d] = c) - 1

\* last index of the run of digits that starts at index i
RECURSIVE DigitRunEnd(_, _)
DigitRunEnd(s, i) ==
    IF i + 1 <= Len(s) /\ IsDigit(s[i + 1]) THEN DigitRunEnd(s, i + 1) ELSE i

\* int() of the digits s[i..j]
RECURSIVE DigitsValue(_, _, _)
DigitsValue(s, i, j) ==
    IF j < i THEN 0 ELSE DigitsValue(s, i, j - 1) * 10 + DigitVal(s[j])

NoNumber == [num |-> 0, dec |-> 0, exp |-> 0]

RECURSIVE Pow10(_)
Pow10(n) == IF n = 0 THEN 1 ELSE 10 * Pow10(n - 1)

\* the multiplier of the suffix group ([kmb]?, case-insensitive), as an exponent
SuffixExp(s, e) ==
    IF e + 1 > Len(s) THEN 0
    ELSE CASE lowerChar(s[e + 1]) = "k" -> 3
           [] lowerChar(s[e + 1]) = "m" -> 6
           [] lowerChar(s[e + 1]) = "b" -> 9
           [] OTHER -> 0

\* the match whose digits are s[i..j], with the decimal part s[j+2..e] when e > j
NumberMatch(s, i, j, e) ==
    IF e > j
    THEN [num |-> DigitsValue(s, i, j) * Pow10(e - (j + 1)) + DigitsValue(s, j + 2, e),
          dec |-> e - (j + 1),
          exp |-> SuffixExp(s, e)]
    ELSE [num |-> DigitsValue(s, i, j), dec |-> 0, exp |-> SuffixExp(s, e)]

\* (\d+(?:\.\d+)?) from the digit run s[i..j]: the decimal part is taken
\* when a dot and a digit follow
NumberFrom(s, i, j) ==
    IF j + 2 <= Len(s) /\ s[j + 1] = "." /\ IsDigit(s[j + 2])
    THEN NumberMatch(s, i, j, DigitRunEnd(s, j + 2))
    ELSE NumberMatch(s, i, j, j)

\* FirstDigit taking the last run of digits of s
FirstDigit_last(s) ==
    CHOOSE k \in 1..Len(s) :
        /\ IsDigit(s[k])
        /\ (k = 1 \/ ~ IsDigit(s[k - 1]))
        /\ \A m \in (k + 1)..Len(s) : ~ (IsDigit(s[m]) /\ ~ IsDigit(s[m - 1]))

\* index of the first digit of s
FirstDigit(s) ==
    CHOOSE k \in 1..Len(s) : IsDigit(s[k]) /\ \A m \in 1..(k - 1) : ~ IsDigit(s[m])

\* re.findall(...)[0] turned into impact_value; NoNumber when findall is empty
FirstNumber(s) ==
    IF ~ \E i \in 1..Len(s) : IsDigit(s[i])
    THEN NoNumber
    ELSE NumberFrom(s, FirstDigit(s), DigitRunEnd(s, FirstDigit(s)))

\* impact_value > 0
Positive(v) == v.num > 0

\* mock_ai_classification testing the Formula Error keywords first
mock_ai_classification_formula_first(issue_description) ==
    LET impact_value == FirstNumber(Chars(issue_description))
        num_str      == IF Positive(impact_value) THEN impact_value ELSE NoNumber
        issue_lower  == lower(Chars(issue_description))
        category ==
            IF AnyIn(FormulaErrorWords, issue_lower) THEN "Formula Error"
            ELSE IF AnyIn(DataIntegrationWords, issue_lower) THEN "Data Integration"
            ELSE IF AnyIn(AccessControlWords, issue_lower) THEN "Access Control"
            ELSE "Strategic Planning"
        urgency ==
            IF AnyIn(FormulaErrorWords, issue_lower)
            THEN (IF AnyIn(FormulaErrorHigh, issue_lower) THEN "High" ELSE "Medium")
            ELSE IF AnyIn(DataIntegrationWords, issue_lower)
            THEN (IF AnyIn(DataIntegrationHigh, issue_lower) THEN "High" ELSE "Medium")
            ELSE "Medium"
    IN  [category     |-> category,
         urgency      |-> urgency,
         impact_score |-> impact_value,
         summary      |-> <<category, num_str>>,
         confidence   |-> 98]

(***************************************************************************)
(* mock_ai_classification (day30_ticket_classifier/ticket_classifier.py).  *)
(* The summary is the category's template with the reference number, which *)
(* is NoNumber when num_str is empty.                                      *)
(***************************************************************************)
mock_ai_classification(issue_description) ==
    LET impact_value == FirstNumber(Chars(issue_description))
        num_str      == IF Positive(impact_value) THEN impact_value ELSE NoNumber
        issue_lower  == lower(Chars(issue_description))
        category ==
            IF AnyIn(DataIntegrationWords, issue_lower) THEN "Data Integration"
            ELSE IF AnyIn(FormulaErrorWords, issue_lower) THEN "Formula Error"
            ELSE IF AnyIn(AccessControlWords, issue_lower) THEN "Access Control"
            ELSE "Strategic Planning"
        urgency ==
            IF AnyIn(DataIntegrationWords, issue_lower)
            THEN (IF AnyIn(DataIntegrationHigh, issue_lower) THEN "High" ELSE "Medium")
            ELSE IF AnyIn(FormulaErrorWords, issue_lower)
            THEN (IF AnyIn(FormulaErrorHigh, issue_lower) THEN "High" ELSE "Medium")
            ELSE "Medium"
    IN  [category     |-> category,
         urgency      |-> urgency,
         impact_score |-> impact_value,
         summary      |-> <<category, num_str>>,
         confidence   |-> 98]

(***************************************************************************)
(* mock_ai_classification of tests/test_classifier.py, the second variant  *)
(* of the rule-based classifier.  It has no impact score; confidence is    *)
(* what random.uniform(0.85, 0.99) gave, in hundredths.                    *)
(***************************************************************************)
TestDataIntegrationWords ==
    { Chars("sync"), Chars("integration"), Chars("api"), Chars("connector"),
      Chars("pigment"), Chars("workday"), Chars("data") }
TestFormulaErrorWords ==
    { Chars("formula"), Chars("calculation"), Chars("logic"), Chars("math"),
      Chars("balance"), Chars("wrong") }
StrategicPlanningWords ==
    { Chars("forecast"), Chars("budget"), Chars("scenario"), Chars("strategic"),
      Chars("cycle") }

test_mock_ai_classification(issue_description, confidence) ==
    LET issue_lower == lower(Chars(issue_description))
        category ==
            IF AnyIn(TestDataIntegrationWords, issue_lower) THEN "Data Integration"
            ELSE IF AnyIn(TestFormulaErrorWords, issue_lower) THEN "Formula Error"
            ELSE IF AnyIn(AccessControlWords, issue_lower) THEN "Access Control"
            ELSE IF AnyIn(StrategicPlanningWords, issue_lower) THEN "Strategic Planning"
            ELSE "General"
        urgency ==
            IF AnyIn(TestDataIntegrationWords, issue_lower)
            THEN (IF AnyIn(DataIntegrationHigh, issue_lower) THEN "High" ELSE "Medium")
            ELSE IF AnyIn(TestFormulaErrorWords, issue_lower)
            THEN (IF AnyIn(FormulaErrorHigh, issue_lower) THEN "High" ELSE "Medium")
            ELSE IF AnyIn(AccessControlWords, issue_lower) THEN "Medium"
            ELSE IF AnyIn(StrategicPlanningWords, issue_lower) THEN "Medium"
            ELSE "Low"
    IN  [category   |-> category,
         urgency    |-> urgency,
         summary    |-> <<category, NoNumber>>,
         confidence |-> confidence]

(***************************************************************************)
(* Configuration read from the environment at import time, the server's    *)
(* global state, and the requests in flight.                               *)
(***************************************************************************)
VARIABLES SLACK_WEBHOOK_URL, WEBHOOK_SECRET, USE_MOCK_AI, state, req

vars == <<SLACK_WEBHOOK_URL, WEBHOOK_SECRET, USE_MOCK_AI, state, req>>

\* The request slots: the handler coroutines that can be in flight.  The
\* webhook receiver and the portal server are two applications.  Handlers of
\* the portal server share nothing but state, where only toggle_slack writes
\* the flag and nothing reads results or stats, so one slot is interleaved
\* with every toggle.
GatewayReq == {"w1", "w2"}
ServerReq == {"c1"}

\* toggle_slack has no await: it runs in one step, at any point between the
\* steps of the other handlers.  Its slot keeps the most recent toggle request.
ToggleReq == {"t1"}

\* the slot of a direct call of the classifier's functions
ClassifierReq == {"k1"}

\* two requests of the portal server in flight at the same time
ConcurrentReq == {"c1", "c2"}

Req == GatewayReq \cup ServerReq \cup ToggleReq \cup ClassifierReq \cup ConcurrentReq

MAX_RETRIES == 3

\* Python's None
None == "None"

\* pandas' value of an empty cell: read_csv gives NaN, a float, not a str
NaN == "NaN"

\* Python truthiness of an environment value (os.getenv gives None or a string)
Truthy(v) == v \notin {None, ""}

(***************************************************************************)
(* classify_with_openai: answer is what the external model does for this   *)
(* call: answer.error when anything inside the try block raises (the API   *)
(* call, json.loads, float), else answer.json is the parsed JSON object, a *)
(* function from the keys it contains to their values.                     *)
(***************************************************************************)
ApiError == [error |-> TRUE, json |-> [k \in {} |-> ""]]

classify_with_openai(issue_description, answer) ==
    IF USE_MOCK_AI THEN mock_ai_classification(issue_description)
    ELSE IF answer.error THEN mock_ai_classification(issue_description)
    ELSE LET get(key, default) ==
                 IF key \in DOMAIN answer.json THEN answer.json[key] ELSE default
         IN  [category     |-> get("Category", "General"),
              urgency      |-> get("Urgency", "Medium"),
              impact_score |-> get("Impact_Score", NoNumber),
              summary      |-> <<get("Precision_Summary", "Significant disruption"),
                                 NoNumber>>,
              confidence   |-> 99]

\* classify_tickets classifying every row by the description of the first row
classify_tickets_first_description(tickets_df, answers) ==
    [i \in 1..Len(tickets_df) |->
        LET row            == tickets_df[i]
            classification ==
                classify_with_openai(tickets_df[1].issue_description, answers[i])
        IN  [ticket_id         |-> row.ticket_id,
             customer          |-> row.customer,
             issue_description |-> row.issue_description,
             ai_category       |-> classification.category,
             ai_urgency        |-> classification.urgency,
             ai_impact_score   |-> classification.impact_score,
             ai_summary        |-> classification.summary,
             ai_confidence     |-> classification.confidence]]

(***************************************************************************)
(* classify_tickets: one result row per row of the input, in input order.  *)
(***************************************************************************)
classify_tickets(tickets_df, answers) ==
    [i \in 1..Len(tickets_df) |->
        LET row            == tickets_df[i]
            classification == classify_with_openai(row.issue_description, answers[i])
        IN  [ticket_id         |-> row.ticket_id,
             customer          |-> row.customer,
             issue_description |-> row.issue_description,
             ai_category       |-> classification.category,
             ai_urgency        |-> classification.urgency,
             ai_impact_score   |-> classification.impact_score,
             ai_summary        |-> classification.summary,
             ai_confidence     |-> classification.confidence]]

\* classify_tickets raises on this row: KeyError on line 134 when the file
\* has no issue_description column; TypeError in re.findall (line 83) when
\* the description is NaN and mock_ai_classification is called, directly
\* (line 32) or after an error of the external model (line 76).  The f-string
\* of the prompt accepts NaN, so the external model answers for such a row.
Raises(row, answer) ==
    \/ "issue_description" \notin DOMAIN row
    \/ /\ row.issue_description = NaN
       /\ (USE_MOCK_AI \/ answer.error)

\* index of the first row on which classify_tickets raises, 0 when none does
FirstRaise(tickets_df, answers) ==
    IF \E i \in 1..Len(tickets_df) : Raises(tickets_df[i], answers[i])
    THEN CHOOSE i \in 1..Len(tickets_df) :
             /\ Raises(tickets_df[i], answers[i])
             /\ \A k \in 1..(i - 1) : ~ Raises(tickets_df[k], answers[k])
    ELSE 0

\* high_priority keeping every row that is not of Low urgency
RECURSIVE high_priority_not_low(_)
high_priority_not_low(rows) ==
    IF rows = <<>> THEN <<>>
    ELSE IF Head(rows).ai_urgency # "Low"
         THEN <<Head(rows)>> \o high_priority_not_low(Tail(rows))
         ELSE high_priority_not_low(Tail(rows))

\* [r for r in rows if r["ai_urgency"] == "High"]
RECURSIVE high_priority(_)
high_priority(rows) ==
    IF rows = <<>> THEN <<>>
    ELSE IF Head(rows).ai_urgency = "High"
         THEN <<Head(rows)>> \o high_priority(Tail(rows))
         ELSE high_priority(Tail(rows))

\* generate_stats: the counts the dashboard shows
generate_stats(classified_df) ==
    [total_tickets       |-> Len(classified_df),
     high_priority_count |-> Len(high_priority(classified_df))]

(***************************************************************************)
(* A request slot.  token and payload (webhook), df (the rows of the        *)
(* uploaded file), row (manual dispatch, <<>> or <<row>>) and arg (the     *)
(* toggle's enabled parameter, <<>> or <<enabled>>) are what the client    *)
(* sent; text (made of words), answers (what the external model did) and   *)
(* classification are the argument, the environment and the return value   *)
(* of a direct call of a classifier function; classified is the number of  *)
(* rows of df for which classify_with_openai has returned; enabled is what *)
(* the batch handler read from                                             *)
(* state["slack_enabled"] ("unread" before line 62 of server.py);          *)
(* pending are the rows the handler still has to alert                     *)
(* on, the head being the one whose alert is in flight; calls is the list  *)
(* of send_slack_alert_async calls this request has made, each with the    *)
(* number of client.post calls issued, their outcomes and the sleeps.      *)
(***************************************************************************)
NoResponse == [status_code |-> 0, body |-> [detail |-> ""]]

\* a body that is not JSON
NoPayload == [json |-> FALSE, fields |-> [f \in {} |-> "text"]]

Idle == [kind |-> "none", pc |-> "idle",
         token |-> None, payload |-> NoPayload, df |-> <<>>, row |-> <<>>,
         arg |-> <<>>, words |-> <<>>, text |-> "", answers |-> <<>>,
         classification |-> <<>>, classified |-> 0,
         enabled |-> "unread", results |-> <<>>, pending |-> <<>>,
         attempt |-> 0, calls |-> <<>>, response |-> NoResponse]

\* return of a handler, or the HTTPException it raises
Respond(q, status_code, body) ==
    [q EXCEPT !.pc = "done", !.response = [status_code |-> status_code, body |-> body]]

\* the LAST call of the request, updated
LastCall(q) == q.calls[Len(q.calls)]
SetLastCall(q, c) == [q EXCEPT !.calls[Len(q.calls)] = c]

(***************************************************************************)
(* The alerts the callers build.                                           *)
(***************************************************************************)
\* server.py classify, lines 65-71
AutoAlert(row) ==
    [incident_title |-> <<"Critical Risk: ", row.customer>>,
     impact_level   |-> "Critical",
     details        |-> row.ai_summary,
     system_area    |-> row.ai_category,
     impact_value   |-> row.ai_impact_score]

\* ManualAlert with a level of its own for the urgencies below Medium
ManualAlert_info_below_medium(row) ==
    [incident_title |-> <<"Manual Dispatch: ", row.customer>>,
     impact_level   |-> IF row.ai_urgency = "High" THEN "Critical"
                        ELSE IF row.ai_urgency = "Medium" THEN "Warning"
                        ELSE "Info",
     details        |-> row.ai_summary,
     system_area    |-> row.ai_category,
     impact_value   |-> row.ai_impact_score]

\* server.py dispatch_slack, lines 85-91
ManualAlert(row) ==
    [incident_title |-> <<"Manual Dispatch: ", row.customer>>,
     impact_level   |-> IF row.ai_urgency = "High" THEN "Critical" ELSE "Warning",
     details        |-> row.ai_summary,
     system_area    |-> row.ai_category,
     impact_value   |-> row.ai_impact_score]

\* server.py test_slack, lines 102-107
TestAlert ==
    [incident_title |-> "System Connectivity Test",
     impact_level   |-> "Info",
     details        |-> "Diagnostic ping from Portal hub.",
     system_area    |-> "Portal Infrastructure",
     impact_value   |-> NoNumber]

\* webhook_receiver.py handle_epm_incident, lines 65-69
IncidentAlert(incident) ==
    [incident_title |-> incident.incident_title,
     impact_level   |-> incident.impact_level,
     details        |-> incident.details,
     system_area    |-> "General Planning",
     impact_value   |-> NoNumber]

(***************************************************************************)
(* send_slack_alert_async and the code of its callers that runs when it    *)
(* returns.  Send runs the call up to its first await; Return runs the     *)
(* caller from the return of the call up to the caller's next await.       *)
(***************************************************************************)
RECURSIVE Send(_, _), Return(_, _)

\* handle_epm_incident_return answering success whatever the call returned
handle_epm_incident_return_always_ok(q, success) ==
    Respond(q, 200, [status |-> "success",
                     message |-> "EPM Strategy Alert sent to Slack",
                     timestamp |-> "now"])

\* webhook_receiver.py lines 71-79 (and 81-83: the 500 is re-raised as a 500)
handle_epm_incident_return(q, success) ==
    IF success
    THEN Respond(q, 200, [status |-> "success",
                          message |-> "EPM Strategy Alert sent to Slack",
                          timestamp |-> "now"])
    ELSE Respond(q, 500, [detail |-> "Failed to send Slack alert"])

\* server.py lines 73-77.  The returned dict is rendered by the framework's
\* JSONResponse, outside the handler's try block, with allow_nan = False: a
\* result row that still carries a NaN description makes the rendering fail
\* and the client gets a 500.
classify_respond(q) ==
    IF \E i \in 1..Len(q.results) : q.results[i].issue_description = NaN
    THEN Respond([q EXCEPT !.pending = <<>>], 500,
                 [detail |-> "Internal Server Error"])
    ELSE Respond([q EXCEPT !.pending = <<>>], 200,
                 [status  |-> "success",
                  results |-> q.results,
                  stats   |-> generate_stats(q.results)])

\* classify_return giving up on the batch when an alert is not delivered
classify_return_abort(q, success) ==
    IF ~ success
    THEN Respond(q, 500, [detail |-> "Slack delivery failed"])
    ELSE IF Len(q.pending) > 1
    THEN Send([q EXCEPT !.pending = Tail(@)], AutoAlert(q.pending[2]))
    ELSE classify_respond(q)

\* classify_return reading the flag again before each further alert
classify_return_rereads_flag(q, success) ==
    IF Len(q.pending) > 1 /\ state.slack_enabled
    THEN Send([q EXCEPT !.pending = Tail(@)], AutoAlert(q.pending[2]))
    ELSE classify_respond(q)

\* server.py lines 64-71: the result of the call is dropped, the loop goes on
\* to the next row of high_priority
classify_return(q, success) ==
    IF Len(q.pending) > 1
    THEN Send([q EXCEPT !.pending = Tail(@)], AutoAlert(q.pending[2]))
    ELSE classify_respond(q)

\* server.py lines 92-94
dispatch_slack_return(q, success) ==
    IF ~ success
    THEN Respond(q, 500, [detail |-> "Slack delivery failed"])
    ELSE Respond(q, 200, [status |-> "success"])

\* server.py line 108
test_slack_return(q, success) ==
    Respond(q, 200, [status |-> IF success THEN "success" ELSE "error"])

Return(q, success) ==
    CASE q.kind = "webhook"  -> handle_epm_incident_return(q, success)
      [] q.kind = "classify" -> classify_return(q, success)
      [] q.kind = "dispatch" -> dispatch_slack_return(q, success)
      [] q.kind = "test"     -> test_slack_return(q, success)

\* Send without the check of SLACK_WEBHOOK_URL
Send_unchecked(q, alert) ==
    [q EXCEPT !.calls = Append(@,
                 [alert |-> alert, attempts |-> 1, outcomes |-> <<>>,
                  waits |-> <<>>, result |-> "pending"]),
              !.attempt = 0,
              !.pc = "post"]

\* slack_notifier.py lines 25-120: from the call to the first client.post
Send(q, alert) ==
    IF ~ Truthy(SLACK_WEBHOOK_URL)
    THEN Return([q EXCEPT !.calls = Append(@,
                     [alert |-> alert, attempts |-> 0, outcomes |-> <<>>,
                      waits |-> <<>>, result |-> "failed"])], FALSE)
    ELSE [q EXCEPT !.calls = Append(@,
                     [alert |-> alert, attempts |-> 1, outcomes |-> <<>>,
                      waits |-> <<>>, result |-> "pending"]),
                   !.attempt = 0,
                   !.pc = "post"]

\* 2 ** attempt
RECURSIVE Pow2(_)
Pow2(n) == IF n = 0 THEN 1 ELSE 2 * Pow2(n - 1)

\* backoff_time growing by one base delay per attempt
backoff_time_linear(attempt) == (attempt + 1) * 100

\* backoff_time = (2 ** attempt) * 0.1, in milliseconds
backoff_time(attempt) == Pow2(attempt) * 100

\* slack_notifier.py lines 120-135: client.post completes.  ok is the sink's
\* answer: a 2xx response, or an httpx.HTTPError (connection error, non-2xx).
post(r, ok) ==
    /\ req[r].pc = "post"
    /\ LET q == req[r]
           c == LastCall(q)
       IN  req' = [req EXCEPT ![r] =
               IF ok
               THEN Return(SetLastCall(q, [c EXCEPT !.outcomes = Append(@, TRUE),
                                                    !.result = "ok"]), TRUE)
               ELSE [SetLastCall(q, [c EXCEPT
                                       !.outcomes = Append(@, FALSE),
                                       !.waits = Append(@, backoff_time(q.attempt))])
                       EXCEPT !.pc = "sleep"]]
    /\ UNCHANGED <<SLACK_WEBHOOK_URL, WEBHOOK_SECRET, USE_MOCK_AI, state>>

\* sleep with a retry loop that runs once more than MAX_RETRIES
sleep_one_more(r) ==
    /\ req[r].pc = "sleep"
    /\ LET q == req[r]
           c == LastCall(q)
       IN  req' = [req EXCEPT ![r] =
               IF q.attempt + 1 <= MAX_RETRIES
               THEN [SetLastCall(q, [c EXCEPT !.attempts = @ + 1])
                       EXCEPT !.attempt = @ + 1, !.pc = "post"]
               ELSE Return(SetLastCall(q, [c EXCEPT !.result = "failed"]), FALSE)]
    /\ UNCHANGED <<SLACK_WEBHOOK_URL, WEBHOOK_SECRET, USE_MOCK_AI, state>>

\* slack_notifier.py lines 135, 116-120 and 137-138: asyncio.sleep completes,
\* the loop issues the next client.post or, after MAX_RETRIES attempts, ends
sleep(r) ==
    /\ req[r].pc = "sleep"
    /\ LET q == req[r]
           c == LastCall(q)
       IN  req' = [req EXCEPT ![r] =
               IF q.attempt + 1 < MAX_RETRIES
               THEN [SetLastCall(q, [c EXCEPT !.attempts = @ + 1])
                       EXCEPT !.attempt = @ + 1, !.pc = "post"]
               ELSE Return(SetLastCall(q, [c EXCEPT !.result = "failed"]), FALSE)]
    /\ UNCHANGED <<SLACK_WEBHOOK_URL, WEBHOOK_SECRET, USE_MOCK_AI, state>>

(***************************************************************************)
(* Inputs of the webhook (webhook_receiver.py).                            *)
(***************************************************************************)
\* the fields of EPMIncident
RequiredFields == {"incident_title", "impact_level", "details"}

\* request bodies: a JSON object with some of the fields, or not JSON at all
Payloads ==
    { [json |-> TRUE, fields |-> [f \in S |-> "text"]] : S \in SUBSET RequiredFields }
    \cup { NoPayload }

\* what pydantic accepts as an EPMIncident
ValidIncident(payload) ==
    payload.json /\ RequiredFields \subseteq DOMAIN payload.fields

\* values of the X-Webhook-Token header; None when the header is absent
Tokens == {None, "s3cret", "guess"}

(***************************************************************************)
(* POST /webhook/epm_incident.  FastAPI builds the EPMIncident parameter   *)
(* from the body before it calls the function, and answers 422 itself when *)
(* that fails; the function body starts with the token check.              *)
(***************************************************************************)
\* handle_epm_incident with the token check run before the body is validated
handle_epm_incident_auth_first(r, token, payload) ==
    /\ req[r].pc = "idle"
    /\ LET q == [Idle EXCEPT !.kind = "webhook",
                             !.token = token, !.payload = payload]
       IN  req' = [req EXCEPT ![r] =
               IF Truthy(WEBHOOK_SECRET) /\ token # WEBHOOK_SECRET
               THEN Respond(q, 401, [detail |-> "Unauthorized"])
               ELSE IF ~ ValidIncident(payload)
               THEN Respond(q, 422, [detail |-> "validation error"])
               ELSE Send(q, IncidentAlert(payload.fields))]
    /\ UNCHANGED <<SLACK_WEBHOOK_URL, WEBHOOK_SECRET, USE_MOCK_AI, state>>

\* handle_epm_incident comparing the token even when no secret is configured
handle_epm_incident_always_checks(r, token, payload) ==
    /\ req[r].pc = "idle"
    /\ LET q == [Idle EXCEPT !.kind = "webhook",
                             !.token = token, !.payload = payload]
       IN  req' = [req EXCEPT ![r] =
               IF ~ ValidIncident(payload)
               THEN Respond(q, 422, [detail |-> "validation error"])
               ELSE IF token # WEBHOOK_SECRET
               THEN Respond(q, 401, [detail |-> "Unauthorized"])
               ELSE Send(q, IncidentAlert(payload.fields))]
    /\ UNCHANGED <<SLACK_WEBHOOK_URL, WEBHOOK_SECRET, USE_MOCK_AI, state>>

handle_epm_incident(r, token, payload) ==
    /\ req[r].pc = "idle"
    /\ LET q == [Idle EXCEPT !.kind = "webhook",
                             !.token = token, !.payload = payload]
       IN  req' = [req EXCEPT ![r] =
               IF ~ ValidIncident(payload)
               THEN Respond(q, 422, [detail |-> "validation error"])
               ELSE IF Truthy(WEBHOOK_SECRET) /\ token # WEBHOOK_SECRET
               THEN Respond(q, 401, [detail |-> "Unauthorized"])
               ELSE Send(q, IncidentAlert(payload.fields))]
    /\ UNCHANGED <<SLACK_WEBHOOK_URL, WEBHOOK_SECRET, USE_MOCK_AI, state>>

(***************************************************************************)
(* Inputs of the portal server (server.py).                                *)
(***************************************************************************)
TxtApiSync == "API sync failed, $1.2M at risk"
TxtLogin   == "Login role"
TxtFormula == "Formula incorrect"

\* the rows of the uploaded files: one ticket per description
TicketSet ==
    { [ticket_id |-> "EPM-001", customer |-> "Acme", issue_description |-> TxtApiSync],
      [ticket_id |-> "EPM-002", customer |-> "Globex", issue_description |-> TxtLogin] }

\* the uploaded files: every batch of at most MaxBatch tickets
Batches == UNION { [1..n -> TicketSet] : n \in 0..MaxBatch }

\* what the external model may do on one call
ApiAnswers ==
    { ApiError,
      [error |-> FALSE, json |-> [k \in {} |-> ""]],
      [error |-> FALSE, json |-> [Category |-> "Billing", Urgency |-> "High"]] }

\* the answers of the external model for one batch; it is not called at all
\* when USE_MOCK_AI is set
AnswersFor(df) ==
    IF USE_MOCK_AI
    THEN { [i \in 1..Len(df) |-> ApiError] }
    ELSE [1..Len(df) -> ApiAnswers]

\* rows of files with empty cells: a good ticket and one whose description
\* cell is empty
IngestTickets ==
    { [ticket_id |-> "EPM-001", customer |-> "Acme", issue_description |-> TxtApiSync],
      [ticket_id |-> "EPM-004", customer |-> "Umbrella", issue_description |-> NaN] }

\* the row of a file that has no issue_description column
NoDescriptionRow == [ticket_id |-> "EPM-005", customer |-> "Hooli"]

\* files with at most MaxBatch rows, with or without the column
IngestBatches ==
    UNION { [1..n -> IngestTickets] \cup [1..n -> {NoDescriptionRow}] :
                n \in 1..MaxBatch }

\* the files of two concurrent uploads: a High ticket, a Medium ticket, a
\* file without rows, a row with an empty description
ConcurrentBatches ==
    { <<t>> : t \in TicketSet \cup IngestTickets } \cup { <<>> }

\* the rows a client may post to /api/dispatch-slack
ManualRows ==
    { [ticket_id         |-> t.ticket_id,
       customer          |-> t.customer,
       issue_description |-> t.issue_description,
       ai_category       |-> mock_ai_classification(t.issue_description).category,
       ai_urgency        |-> u,
       ai_impact_score   |-> mock_ai_classification(t.issue_description).impact_score,
       ai_summary        |-> mock_ai_classification(t.issue_description).summary,
       ai_confidence     |-> 98] :
          t \in TicketSet, u \in {"High", "Medium", "Low"} }

(***************************************************************************)
(* GET /api/config, POST /api/config/slack, /api/classify,                 *)
(* /api/dispatch-slack and /api/test-slack.                                *)
(***************************************************************************)
\* server.py lines 35-41
get_config(r) ==
    /\ req[r].pc = "idle"
    /\ req' = [req EXCEPT ![r] =
            Respond([Idle EXCEPT !.kind = "config"], 200,
                    [slack_enabled    |-> state.slack_enabled,
                     slack_configured |-> Truthy(SLACK_WEBHOOK_URL)])]
    /\ UNCHANGED <<SLACK_WEBHOOK_URL, WEBHOOK_SECRET, USE_MOCK_AI, state>>

\* toggle_slack that also forgets the stored results
toggle_slack_clears_results(r, enabled) ==
    /\ state' = [state EXCEPT !.slack_enabled = enabled, !.results = <<>>]
    /\ req' = [req EXCEPT ![r] =
            Respond([Idle EXCEPT !.kind = "toggle", !.arg = <<enabled>>], 200,
                    [status |-> "success", slack_enabled |-> enabled])]
    /\ UNCHANGED <<SLACK_WEBHOOK_URL, WEBHOOK_SECRET, USE_MOCK_AI>>

\* server.py lines 43-46
toggle_slack(r, enabled) ==
    /\ state' = [state EXCEPT !.slack_enabled = enabled]
    /\ req' = [req EXCEPT ![r] =
            Respond([Idle EXCEPT !.kind = "toggle", !.arg = <<enabled>>], 200,
                    [status |-> "success", slack_enabled |-> enabled])]
    /\ UNCHANGED <<SLACK_WEBHOOK_URL, WEBHOOK_SECRET, USE_MOCK_AI>>

\* server.py lines 49-51: the handler starts and awaits file.read()
classify(r, df) ==
    /\ req[r].pc = "idle"
    /\ req' = [req EXCEPT ![r] = [Idle EXCEPT !.kind = "classify",
                                              !.df = df,
                                              !.pc = "read"]]
    /\ UNCHANGED <<SLACK_WEBHOOK_URL, WEBHOOK_SECRET, USE_MOCK_AI, state>>

\* classify_read storing the results before generate_stats has run
classify_read_stores_early(r) ==
    /\ req[r].pc = "read"
    /\ \E answers \in AnswersFor(req[r].df) :
       LET q            == req[r]
           raise        == FirstRaise(q.df, answers)
           results_list == classify_tickets(q.df, answers)
           stats        == generate_stats(results_list)
           hp           == high_priority(results_list)
           q1           == [q EXCEPT !.results = results_list,
                                     !.classified = Len(q.df),
                                     !.enabled = IF state.slack_enabled
                                                 THEN "on" ELSE "off"]
       IN  IF Len(q.df) = 0
           THEN /\ req' = [req EXCEPT ![r] =
                        Respond(q, 500, [detail |-> "'ai_category'"])]
                /\ state' = [state EXCEPT !.results = <<results_list>>]
           ELSE IF raise # 0
           THEN /\ req' = [req EXCEPT ![r] =
                        Respond([q EXCEPT !.classified = raise - 1], 500,
                                [detail |-> "classify_tickets raised"])]
                /\ state' = state
           ELSE /\ state' = [state EXCEPT !.results = <<results_list>>,
                                          !.stats = <<stats>>]
                /\ req' = [req EXCEPT ![r] =
                        IF state.slack_enabled /\ hp # <<>>
                        THEN Send([q1 EXCEPT !.pending = hp], AutoAlert(hp[1]))
                        ELSE classify_respond(q1)]
    /\ UNCHANGED <<SLACK_WEBHOOK_URL, WEBHOOK_SECRET, USE_MOCK_AI>>

\* server.py lines 52-71: from the end of file.read() to the first alert's
\* client.post.  A file without rows gives a DataFrame without columns, on
\* which generate_stats raises KeyError: the handler answers 500.  So it does
\* when classify_tickets raises on a row, after it has classified the rows
\* before that one.
classify_read(r) ==
    /\ req[r].pc = "read"
    /\ \E answers \in AnswersFor(req[r].df) :
       LET q            == req[r]
           raise        == FirstRaise(q.df, answers)
           results_list == classify_tickets(q.df, answers)
           stats        == generate_stats(results_list)
           hp           == high_priority(results_list)
           q1           == [q EXCEPT !.results = results_list,
                                     !.classified = Len(q.df),
                                     !.enabled = IF state.slack_enabled
                                                 THEN "on" ELSE "off"]
       IN  IF Len(q.df) = 0
           THEN /\ req' = [req EXCEPT ![r] =
                        Respond(q, 500, [detail |-> "'ai_category'"])]
                /\ state' = state
           ELSE IF raise # 0
           THEN /\ req' = [req EXCEPT ![r] =
                        Respond([q EXCEPT !.classified = raise - 1], 500,
                                [detail |-> "classify_tickets raised"])]
                /\ state' = state
           ELSE /\ state' = [state EXCEPT !.results = <<results_list>>,
                                          !.stats = <<stats>>]
                /\ req' = [req EXCEPT ![r] =
                        IF state.slack_enabled /\ hp # <<>>
                        THEN Send([q1 EXCEPT !.pending = hp], AutoAlert(hp[1]))
                        ELSE classify_respond(q1)]
    /\ UNCHANGED <<SLACK_WEBHOOK_URL, WEBHOOK_SECRET, USE_MOCK_AI>>

\* dispatch_slack sending only when the toggle is on
dispatch_slack_if_enabled(r, row) ==
    /\ req[r].pc = "idle"
    /\ req' = [req EXCEPT ![r] =
            LET q == [Idle EXCEPT !.kind = "dispatch", !.row = <<row>>]
            IN  IF state.slack_enabled
                THEN Send(q, ManualAlert(row))
                ELSE Respond(q, 200, [status |-> "success"])]
    /\ UNCHANGED <<SLACK_WEBHOOK_URL, WEBHOOK_SECRET, USE_MOCK_AI, state>>

\* server.py lines 82-91: manual dispatch, the toggle is not read
dispatch_slack(r, row) ==
    /\ req[r].pc = "idle"
    /\ req' = [req EXCEPT ![r] =
            Send([Idle EXCEPT !.kind = "dispatch", !.row = <<row>>], ManualAlert(row))]
    /\ UNCHANGED <<SLACK_WEBHOOK_URL, WEBHOOK_SECRET, USE_MOCK_AI, state>>

\* server.py lines 97-107
test_slack(r) ==
    /\ req[r].pc = "idle"
    /\ LET q == [Idle EXCEPT !.kind = "test"]
       IN  req' = [req EXCEPT ![r] =
               IF ~ Truthy(SLACK_WEBHOOK_URL)
               THEN Respond(q, 200, [status |-> "error",
                                     message |-> "Webhook not configured"])
               ELSE Send(q, TestAlert)]
    /\ UNCHANGED <<SLACK_WEBHOOK_URL, WEBHOOK_SECRET, USE_MOCK_AI, state>>

(***************************************************************************)
(* Direct calls of the classifier's functions.  The descriptions are the   *)
(* texts of at most MaxWords words of Vocabulary, separated by one space.  *)
(***************************************************************************)
Vocabulary ==
    { "sync", "Formula", "login", "budget", "failed", "error", "incorrect",
      "question", "$1.2M", "450", "5k", "2B" }

WordSeqs == UNION { [1..n -> Vocabulary] : n \in 0..MaxWords }

\* " ".join(words)
RECURSIVE Join(_)
Join(words) ==
    IF words = <<>> THEN ""
    ELSE IF Len(words) = 1 THEN words[1]
    ELSE words[1] \o " " \o Join(Tail(words))

\* what the external model may answer to a direct call
ClassifierAnswers ==
    ApiAnswers \cup
    { [error |-> FALSE,
       json |-> [Category |-> "Formula Error", Urgency |-> "Urgent",
                 Impact_Score |-> [num |-> 0 - 500, dec |-> 0, exp |-> 0]]],
      [error |-> FALSE,
       json |-> [Category |-> "Access Control", Urgency |-> "Low",
                 Impact_Score |-> [num |-> 12, dec |-> 1, exp |-> 6],
                 Precision_Summary |-> "The $1.2M variance is at risk"]] }

\* the rows given to classify_tickets
ClassifierTickets ==
    TicketSet \cup
    { [ticket_id |-> "EPM-003", customer |-> "Initech", issue_description |-> TxtFormula] }

ClassifierBatches == UNION { [1..n -> ClassifierTickets] : n \in 0..MaxBatch }

\* random.uniform(0.85, 0.99) rounded to 2 places, in hundredths
Confidences == {85, 92, 99}

\* ticket_classifier.py lines 78-122
call_mock_ai_classification(r, words) ==
    /\ req[r].pc = "idle"
    /\ req' = [req EXCEPT ![r] =
            [Idle EXCEPT !.kind = "mock",
                         !.words = words,
                         !.text = Join(words),
                         !.classification = <<mock_ai_classification(Join(words))>>,
                         !.pc = "done"]]
    /\ UNCHANGED <<SLACK_WEBHOOK_URL, WEBHOOK_SECRET, USE_MOCK_AI, state>>

\* tests/test_classifier.py lines 85-118
call_test_mock_ai_classification(r, words, confidence) ==
    /\ req[r].pc = "idle"
    /\ req' = [req EXCEPT ![r] =
            [Idle EXCEPT !.kind = "test_mock",
                         !.words = words,
                         !.text = Join(words),
                         !.classification =
                             <<test_mock_ai_classification(Join(words), confidence)>>,
                         !.pc = "done"]]
    /\ UNCHANGED <<SLACK_WEBHOOK_URL, WEBHOOK_SECRET, USE_MOCK_AI, state>>

\* ticket_classifier.py lines 27-76
call_classify_with_openai(r, words, answer) ==
    /\ req[r].pc = "idle"
    /\ USE_MOCK_AI => answer = ApiError
    /\ req' = [req EXCEPT ![r] =
            [Idle EXCEPT !.kind = "openai",
                         !.words = words,
                         !.text = Join(words),
                         !.answers = <<answer>>,
                         !.classification =
                             <<classify_with_openai(Join(words), answer)>>,
                         !.pc = "done"]]
    /\ UNCHANGED <<SLACK_WEBHOOK_URL, WEBHOOK_SECRET, USE_MOCK_AI, state>>

\* ticket_classifier.py lines 124-157
call_classify_tickets(r, tickets_df) ==
    /\ req[r].pc = "idle"
    /\ \E answers \in AnswersFor(tickets_df) :
           req' = [req EXCEPT ![r] =
               [Idle EXCEPT !.kind = "tickets",
                            !.df = tickets_df,
                            !.answers = answers,
                            !.results = classify_tickets(tickets_df, answers),
                            !.pc = "done"]]
    /\ UNCHANGED <<SLACK_WEBHOOK_URL, WEBHOOK_SECRET, USE_MOCK_AI, state>>

(***************************************************************************)
(* The specifications.                                                     *)
(***************************************************************************)
Init ==
    /\ SLACK_WEBHOOK_URL \in {None, "", "https://hooks.example/T0"}
    /\ WEBHOOK_SECRET \in {None, "", "s3cret"}
    /\ USE_MOCK_AI \in BOOLEAN
    /\ state = [results |-> <<>>, stats |-> <<>>, slack_enabled |-> FALSE]
    /\ req = [r \in Req |-> Idle]

NextGateway ==
    \/ \E r \in GatewayReq, token \in Tokens, payload \in Payloads :
           handle_epm_incident(r, token, payload)
    \/ \E r \in GatewayReq, ok \in BOOLEAN : post(r, ok)
    \/ \E r \in GatewayReq : sleep(r)

Next ==
    \/ \E r \in ServerReq : get_config(r)
    \/ \E r \in ToggleReq, enabled \in BOOLEAN : toggle_slack(r, enabled)
    \/ \E r \in ServerReq, df \in Batches : classify(r, df)
    \/ \E r \in ServerReq : classify_read(r)
    \/ \E r \in ServerReq, row \in ManualRows : dispatch_slack(r, row)
    \/ \E r \in ServerReq : test_slack(r)
    \/ \E r \in ServerReq, ok \in BOOLEAN : post(r, ok)
    \/ \E r \in ServerReq : sleep(r)

\* the classifier called on its own: the Slack configuration is not read
InitClassifier ==
    /\ SLACK_WEBHOOK_URL = None
    /\ WEBHOOK_SECRET = None
    /\ USE_MOCK_AI \in BOOLEAN
    /\ state = [results |-> <<>>, stats |-> <<>>, slack_enabled |-> FALSE]
    /\ req = [r \in Req |-> Idle]

NextClassifier ==
    \/ \E r \in ClassifierReq, words \in WordSeqs :
           call_mock_ai_classification(r, words)
    \/ \E r \in ClassifierReq, words \in WordSeqs, confidence \in Confidences :
           call_test_mock_ai_classification(r, words, confidence)
    \/ \E r \in ClassifierReq, words \in WordSeqs, answer \in ClassifierAnswers :
           call_classify_with_openai(r, words, answer)
    \/ \E r \in ClassifierReq, tickets_df \in ClassifierBatches :
           call_classify_tickets(r, tickets_df)

\* the portal server given files with missing descriptions
NextIngest ==
    \/ \E r \in ToggleReq, enabled \in BOOLEAN : toggle_slack(r, enabled)
    \/ \E r \in ServerReq, df \in IngestBatches : classify(r, df)
    \/ \E r \in ServerReq : classify_read(r)
    \/ \E r \in ServerReq, ok \in BOOLEAN : post(r, ok)
    \/ \E r \in ServerReq : sleep(r)

\* the portal server with two requests in flight: the webhook secret is not
\* read, and the sink is configured or not
InitConcurrent ==
    /\ SLACK_WEBHOOK_URL \in {"", "https://hooks.example/T0"}
    /\ WEBHOOK_SECRET = None
    /\ USE_MOCK_AI \in BOOLEAN
    /\ state = [results |-> <<>>, stats |-> <<>>, slack_enabled |-> FALSE]
    /\ req = [r \in Req |-> Idle]

\* the rows posted to /api/dispatch-slack while batches are in flight
ConcurrentRows == { row \in ManualRows : row.ticket_id = "EPM-001" /\ row.ai_urgency = "High" }

NextConcurrent ==
    \/ \E r \in ToggleReq, enabled \in BOOLEAN : toggle_slack(r, enabled)
    \/ \E r \in ConcurrentReq, df \in ConcurrentBatches : classify(r, df)
    \/ \E r \in ConcurrentReq : classify_read(r)
    \/ \E r \in ConcurrentReq, row \in ConcurrentRows : dispatch_slack(r, row)
    \/ \E r \in ConcurrentReq, ok \in BOOLEAN : post(r, ok)
    \/ \E r \in ConcurrentReq : sleep(r)

\* the portal server
Spec == Init /\ [][Next]_vars

\* the portal server, two requests in flight
SpecConcurrent == InitConcurrent /\ [][NextConcurrent]_vars

\* the portal server, ingestion of incomplete files
SpecIngest == Init /\ [][NextIngest]_vars

\* the classifier
SpecClassifier == InitClassifier /\ [][NextClassifier]_vars

\* the webhook receiver
SpecGateway == Init /\ [][NextGateway]_vars

(***************************************************************************)
(* Properties of send_slack_alert_async.                                   *)
(***************************************************************************)
\* every call of send_slack_alert_async made so far, by any request
Calls == UNION { { req[r].calls[i] : i \in 1..Len(req[r].calls) } : r \in Req }

\* index of the first successful attempt of a call, 0 when there is none
FirstSuccess(c) ==
    IF \E k \in 1..Len(c.outcomes) : c.outcomes[k]
    THEN CHOOSE k \in 1..Len(c.outcomes) :
             c.outcomes[k] /\ \A m \in 1..(k - 1) : ~ c.outcomes[m]
    ELSE 0

\* C1: with a configured sink the attempts of a call are made one after
\* another (a new client.post is issued only when the previous one has
\* answered), never more than 3 are made, the call returns success exactly
\* when one attempt succeeded, and the number of attempts made is the index of
\* the first successful attempt, or 3 when all attempts fail.
C1_AttemptsUntilFirstSuccess ==
    Truthy(SLACK_WEBHOOK_URL) =>
        \A c \in Calls :
            /\ c.attempts \in 1..3
            /\ Len(c.outcomes) \in {c.attempts - 1, c.attempts}
            /\ c.result = "pending" => FirstSuccess(c) = 0
            /\ c.result # "pending" =>
                   /\ Len(c.outcomes) = c.attempts
                   /\ (c.result = "ok") <=> (FirstSuccess(c) # 0)
                   /\ c.attempts = IF FirstSuccess(c) # 0 THEN FirstSuccess(c) ELSE 3

\* a request whose first alert went through at the third attempt and whose
\* second alert failed three times
C1_Witness ==
    \E r \in Req :
        /\ Len(req[r].calls) = 2
        /\ req[r].calls[1].outcomes = <<FALSE, FALSE, TRUE>>
        /\ req[r].calls[1].result = "ok"
        /\ req[r].calls[1].attempts = 3
        /\ req[r].calls[2].outcomes = <<FALSE, FALSE, FALSE>>
        /\ req[r].calls[2].result = "failed"
        /\ req[r].calls[2].attempts = 3

\* C2: when SLACK_WEBHOOK_URL is unset or empty every call returns failure
\* with zero attempts: no client.post, no sleep, and no request ever waits in
\* the notifier.
C2_UnconfiguredSinkNoAttempt ==
    ~ Truthy(SLACK_WEBHOOK_URL) =>
        /\ \A c \in Calls :
               /\ c.result = "failed"
               /\ c.attempts = 0
               /\ c.outcomes = <<>>
               /\ c.waits = <<>>
        /\ \A r \in Req : req[r].pc \notin {"post", "sleep"}

\* a batch of two High tickets alerted on with no sink configured
C2_Witness ==
    /\ SLACK_WEBHOOK_URL = ""
    /\ \E r \in Req :
           /\ req[r].kind = "classify"
           /\ req[r].pc = "done"
           /\ Len(req[r].calls) = 2
           /\ \A i \in 1..2 : req[r].calls[i].result = "failed"

(***************************************************************************)
(* Properties of the webhook receiver, under SpecGateway.                  *)
(***************************************************************************)
\* the webhook requests that have been answered
Answered == { r \in GatewayReq : req[r].kind = "webhook" /\ req[r].pc = "done" }

\* the request carries a credential that differs from the configured secret
Mismatch(r) ==
    Truthy(WEBHOOK_SECRET) /\ req[r].token # WEBHOOK_SECRET

\* C3: a request with a configured secret and a mismatched X-Webhook-Token is
\* answered 401 whether or not its payload is valid.
C3_AuthBeforeValidation ==
    \A r \in Answered : Mismatch(r) => req[r].response.status_code = 401

\* C4: a request whose payload lacks a required field or is not JSON is
\* answered 422, also when it carries no credential header, and makes no call
\* of the dispatcher.
C4_InvalidPayload422 ==
    \A r \in Answered :
        ~ ValidIncident(req[r].payload) =>
            /\ req[r].response.status_code = 422
            /\ req[r].calls = <<>>

\* a secret is configured and a request without the header and without two of
\* the fields has been answered, and so has one that is not JSON
C4_Witness ==
    /\ WEBHOOK_SECRET = "s3cret"
    /\ \E r \in Answered :
           /\ req[r].token = None
           /\ req[r].payload.json
           /\ DOMAIN req[r].payload.fields = {"incident_title"}
           /\ req[r].response.status_code = 422
    /\ \E r \in Answered :
           /\ ~ req[r].payload.json
           /\ req[r].response.status_code = 422

\* the request has a valid payload and the configured secret as credential
Authorized(r) ==
    /\ ValidIncident(req[r].payload)
    /\ Truthy(WEBHOOK_SECRET)
    /\ req[r].token = WEBHOOK_SECRET

C6_UnauthorizedIffMismatch ==
    \A r \in Answered :
        ValidIncident(req[r].payload) =>
            /\ (req[r].response.status_code = 401) <=> Mismatch(r)
            /\ req[r].response.status_code = 401 => req[r].calls = <<>>
            /\ ~ Truthy(WEBHOOK_SECRET) => req[r].response.status_code # 401

\* no secret is configured; a request with a wrong token and one without the
\* header have both been let through to the dispatcher
C6_Witness ==
    /\ ~ Truthy(WEBHOOK_SECRET)
    /\ \E r \in Answered :
           /\ ValidIncident(req[r].payload)
           /\ req[r].token = "guess"
           /\ Len(req[r].calls) = 1
    /\ \E r \in Answered :
           /\ ValidIncident(req[r].payload)
           /\ req[r].token = None
           /\ Len(req[r].calls) = 1

(***************************************************************************)
(* Properties of the portal server, under Spec.                            *)
(***************************************************************************)
IsHigh(row) == row.ai_urgency = "High"

\* the High rows of the batch a request has classified, in batch order
HighRows(r) == SelectSeq(req[r].results, IsHigh)

\* the batch requests
BatchReq == { r \in ServerReq : req[r].kind = "classify" }

\* C7: the batch handler calls the dispatcher for a ticket if and only if the
\* ticket's urgency is High and the flag was enabled when the handler read it,
\* once per such ticket and in batch order; with the flag read as disabled, or
\* not read yet, there is no call at all.
C7_AutoDispatchIffHighAndEnabled ==
    \A r \in BatchReq :
        /\ req[r].enabled # "on" => req[r].calls = <<>>
        /\ req[r].enabled = "on" =>
               /\ Len(req[r].calls) <= Len(HighRows(r))
               /\ \A i \in 1..Len(req[r].calls) :
                      /\ req[r].calls[i].alert.incident_title
                             = <<"Critical Risk: ", HighRows(r)[i].customer>>
                      /\ req[r].calls[i].alert.details = HighRows(r)[i].ai_summary
                      /\ req[r].calls[i].alert.impact_level = "Critical"
               /\ req[r].pc = "done" => Len(req[r].calls) = Len(HighRows(r))

\* a finished batch of a High and a Medium ticket, read with the flag on:
\* one alert, for the High ticket
C7_Witness ==
    \E r \in BatchReq :
        /\ req[r].pc = "done"
        /\ req[r].enabled = "on"
        /\ Len(req[r].results) = 2
        /\ req[r].results[1].ai_urgency = "Medium"
        /\ req[r].results[2].ai_urgency = "High"
        /\ Len(req[r].calls) = 1
        /\ req[r].calls[1].alert.details = req[r].results[2].ai_summary

\* the manual-dispatch requests
ManualReq == { r \in ServerReq : req[r].kind = "dispatch" }

\* C8: a manual dispatch calls the dispatcher exactly once, for the row it was
\* given, whatever the flag and the row's urgency, and no step of a manual
\* dispatch changes the flag.
C8_ManualDispatchOnce ==
    /\ [](\A r \in ManualReq :
              /\ Len(req[r].calls) = 1
              /\ req[r].calls[1].alert.incident_title
                     = <<"Manual Dispatch: ", req[r].row[1].customer>>
              /\ req[r].calls[1].alert.details = req[r].row[1].ai_summary)
    /\ [][(\E r \in ServerReq : req'[r].kind = "dispatch" /\ req'[r] # req[r])
              => state' = state]_vars

\* a Low row dispatched by hand, and delivered, while the flag is off
C8_Witness ==
    /\ ~ state.slack_enabled
    /\ \E r \in ManualReq :
           /\ req[r].pc = "done"
           /\ req[r].row[1].ai_urgency = "Low"
           /\ Len(req[r].calls) = 1
           /\ req[r].calls[1].result = "ok"

\* C9: in a batch read with the flag on, an alert that fails does not stop the
\* loop: the dispatcher is called for the next High row as soon as the failed
\* call returns, and the finished batch is answered 200 with one result per
\* ticket of the file, in order.
C9_FailureDoesNotStopBatch ==
    \A r \in BatchReq :
        req[r].enabled = "on" =>
            /\ \A i \in 1..Len(req[r].calls) :
                   (req[r].calls[i].result = "failed" /\ i < Len(HighRows(r)))
                       => Len(req[r].calls) > i
            /\ req[r].pc = "done" =>
                   /\ Len(req[r].calls) = Len(HighRows(r))
                   /\ req[r].response.status_code = 200
                   /\ Len(req[r].response.body.results) = Len(req[r].df)
                   /\ \A k \in 1..Len(req[r].df) :
                          req[r].response.body.results[k].issue_description
                              = req[r].df[k].issue_description

\* a finished batch of two High tickets whose first alert failed three times
\* and whose second alert was delivered
C9_Witness ==
    \E r \in BatchReq :
        /\ req[r].pc = "done"
        /\ Len(req[r].calls) = 2
        /\ req[r].calls[1].result = "failed"
        /\ req[r].calls[1].attempts = 3
        /\ req[r].calls[2].result = "ok"
        /\ req[r].response.status_code = 200

\* the request with every alert it sent delivered
AllDelivered(q) ==
    [q EXCEPT !.calls = [i \in 1..Len(q.calls) |-> [q.calls[i] EXCEPT !.result = "ok"]]]

\* C10: the answer to a batch tells the caller which alerts failed: the answer
\* to a batch with a failed alert differs from the answer the same batch gets
\* when every alert is delivered.
C10_FailedAlertReported ==
    \A r \in BatchReq :
        (/\ req[r].pc = "done"
         /\ \E i \in 1..Len(req[r].calls) : req[r].calls[i].result = "failed")
            => req[r].response # classify_respond(AllDelivered(req[r])).response

\* the most recent toggle request
LastToggle == req["t1"]

\* C11: the flag is false at startup and always equals the argument of the
\* most recent toggle, or false when there was none; no step of classify,
\* manual dispatch, connectivity test or config read changes it; a toggle
\* changes nothing but the flag: the stored results and stats and the other
\* requests stay as they are, and it makes no call of the dispatcher.
C11_FlagFollowsToggle ==
    /\ ~ state.slack_enabled
    /\ [](/\ state.slack_enabled
               = (IF LastToggle.arg = <<>> THEN FALSE ELSE LastToggle.arg[1])
          /\ LastToggle.calls = <<>>)
    /\ [][(\E r \in ServerReq : req'[r] # req[r])
              => state'.slack_enabled = state.slack_enabled]_vars
    /\ [][(req'["t1"] # req["t1"] \/ state'.slack_enabled # state.slack_enabled)
              => /\ state'.results = state.results
                 /\ state'.stats = state.stats
                 /\ \A r \in ServerReq : req'[r] = req[r]]_vars

\* the flag was switched on, a batch read it as on and stored its results,
\* and the flag was switched off again while the batch's alert is in flight
C11_Witness ==
    /\ LastToggle.arg = <<FALSE>>
    /\ ~ state.slack_enabled
    /\ state.results # <<>>
    /\ \E r \in BatchReq : req[r].enabled = "on" /\ req[r].pc = "post"

(***************************************************************************)
(* Properties of the classifier, under SpecClassifier.                     *)
(***************************************************************************)
\* the direct calls of the given kinds that have returned
Returned(kinds) ==
    { r \in ClassifierReq : req[r].kind \in kinds /\ req[r].pc = "done" }

\* the categories in their priority order, and the enumerations of the data
\* model
CategoryOrder ==
    <<"Data Integration", "Formula Error", "Access Control", "Strategic Planning">>
Categories == { CategoryOrder[k] : k \in 1..4 } \cup {"General"}
Urgencies == {"High", "Medium", "Low"}

\* the keyword set of the k-th category in the variant called by a request
\* of the given kind
KeywordSet(kind, k) ==
    CASE k = 1 -> IF kind = "mock" THEN DataIntegrationWords ELSE TestDataIntegrationWords
      [] k = 2 -> IF kind = "mock" THEN FormulaErrorWords ELSE TestFormulaErrorWords
      [] k = 3 -> AccessControlWords
      [] k = 4 -> StrategicPlanningWords

\* the categories whose keyword set matches the lower-cased text of a call
Matched(r) ==
    { k \in 1..4 : AnyIn(KeywordSet(req[r].kind, k), lower(Chars(req[r].text))) }

Least(S) == CHOOSE k \in S : \A m \in S : k <= m

\* C12: for every text that matches the keyword set of at least one category
\* the rule-based classifier (either variant) returns the matching category
\* that comes first in the order Data Integration, Formula Error, Access
\* Control, Strategic Planning.
C12_FirstMatchingCategory ==
    \A r \in Returned({"mock", "test_mock"}) :
        Matched(r) # {} =>
            req[r].classification[1].category = CategoryOrder[Least(Matched(r))]

\* "Formula sync" classified by the server's classifier: Data Integration,
\* although the Formula Error keyword comes first in the text
C12_Witness ==
    \E r \in Returned({"mock"}) :
        /\ req[r].words = <<"Formula", "sync">>
        /\ Matched(r) = {1, 2}
        /\ req[r].classification[1].category = "Data Integration"

\* the failure keywords
FailureWords ==
    { Chars("failed"), Chars("stopped"), Chars("stuck"), Chars("error"),
      Chars("incorrect"), Chars("critical") }

\* C13: a text classified as Data Integration, Formula Error or Strategic
\* Planning gets urgency High when it contains a failure keyword and Medium
\* otherwise; Access Control is always Medium; a text that matches no keyword
\* set is always Low.
C13_UrgencyFromFailureWords ==
    \A r \in Returned({"mock"}) :
        LET c == req[r].classification[1]
            issue_lower == lower(Chars(req[r].text))
        IN  IF Matched(r) = {} THEN c.urgency = "Low"
            ELSE IF c.category = "Access Control" THEN c.urgency = "Medium"
            ELSE c.urgency = (IF AnyIn(FailureWords, issue_lower)
                              THEN "High" ELSE "Medium")

\* C14: every call of the rule-based classifier (either variant) returns a
\* classification, and a text that contains no category keyword is classified
\* General with urgency Low.
C14_GeneralLowFallback ==
    \A r \in Returned({"mock", "test_mock"}) :
        /\ Len(req[r].classification) = 1
        /\ Matched(r) = {} =>
               /\ req[r].classification[1].category = "General"
               /\ req[r].classification[1].urgency = "Low"

\* C15: every classification returned by classify_with_openai has a category
\* and an urgency of the enumerations, a score that is not negative and a
\* confidence between 0 and 1 (0 to 100 hundredths).
C15_ClassificationInRange ==
    \A r \in Returned({"openai"}) :
        LET c == req[r].classification[1]
        IN  /\ c.category \in Categories
            /\ c.urgency \in Urgencies
            /\ c.impact_score.num >= 0
            /\ c.confidence \in 0..100

\* the numeric tokens of Vocabulary with the value the claim gives them
TokenValue ==
    [w \in {"$1.2M", "450", "5k", "2B"} |->
        CASE w = "$1.2M" -> 1200000
          [] w = "450"   -> 450
          [] w = "5k"    -> 5000
          [] w = "2B"    -> 2000000000]

\* positions of the words of a call that are numeric tokens
NumericWords(r) == { i \in 1..Len(req[r].words) : req[r].words[i] \in DOMAIN TokenValue }

\* num / 10^dec * 10^exp is the integer n
ValueIs(v, n) == v.num * Pow10(v.exp) = n * Pow10(v.dec)

\* C16: the impact score is the value of the first numeric token of the text
\* times the multiplier of its suffix (1,000 for k, 1,000,000 for m,
\* 1,000,000,000 for b, either case); numbers later in the text do not change it, and a text without a
\* numeric token gives 0.
C16_FirstNumberOnly ==
    \A r \in Returned({"mock"}) :
        ValueIs(req[r].classification[1].impact_score,
                IF NumericWords(r) = {} THEN 0
                ELSE TokenValue[req[r].words[Least(NumericWords(r))]])

\* "5k $1.2M" gives 5000
C16_Witness ==
    \E r \in Returned({"mock"}) :
        /\ req[r].words = <<"5k", "$1.2M">>
        /\ ValueIs(req[r].classification[1].impact_score, 5000)

\* the classification columns of a result row
ClassificationOf(row) == <<row.ai_category, row.ai_urgency, row.ai_impact_score>>

\* C19: classify_tickets returns one result per ticket, in input order, with
\* the ticket's id, customer and description unchanged, and each result's
\* category, urgency and impact score are the ones the ticket gets when it is
\* classified alone, as a batch of one ticket.
C19_OneResultPerTicket ==
    \A r \in Returned({"tickets"}) :
        /\ Len(req[r].results) = Len(req[r].df)
        /\ \A i \in 1..Len(req[r].df) :
               /\ req[r].results[i].ticket_id = req[r].df[i].ticket_id
               /\ req[r].results[i].customer = req[r].df[i].customer
               /\ req[r].results[i].issue_description = req[r].df[i].issue_description
               /\ ClassificationOf(req[r].results[i])
                      = ClassificationOf(
                            classify_tickets(<<req[r].df[i]>>, <<req[r].answers[i]>>)[1])

\* a batch of two different tickets classified by the rules: the second
\* ticket, the Formula Error one, keeps its own category
C19_Witness ==
    \E r \in Returned({"tickets"}) :
        /\ USE_MOCK_AI
        /\ Len(req[r].df) = 2
        /\ req[r].df[1].issue_description = TxtApiSync
        /\ req[r].df[2].issue_description = TxtFormula
        /\ req[r].results[1].ai_category = "Data Integration"
        /\ req[r].results[2].ai_category = "Formula Error"

(***************************************************************************)
(* Properties of the alerts and of the backoff, under Spec.                *)
(***************************************************************************)
\* the mapping of the claim: High to Critical, Medium to Warning, else Info
ImpactLevelOf(urgency) ==
    CASE urgency = "High"   -> "Critical"
      [] urgency = "Medium" -> "Warning"
      [] OTHER              -> "Info"

\* C17 as stated: the alerts of automatic and of manual dispatch carry the
\* impact_level that the mapping High to Critical, Medium to Warning, any
\* other urgency to Info gives for the urgency of their row.
C17_ImpactLevelFromUrgency ==
    /\ \A r \in BatchReq : \A i \in 1..Len(req[r].calls) :
           req[r].calls[i].alert.impact_level
               = ImpactLevelOf(HighRows(r)[i].ai_urgency)
    /\ \A r \in ManualReq : \A i \in 1..Len(req[r].calls) :
           req[r].calls[i].alert.impact_level
               = ImpactLevelOf(req[r].row[1].ai_urgency)

\* the connectivity-test requests
TestReq == { r \in ServerReq : req[r].kind = "test" }

\* C17 amended: every caller gives the impact_level itself.  Automatic
\* dispatch alerts on High rows only and always says Critical; manual
\* dispatch says Critical for a High row and Warning for a row of any other
\* urgency, Low included; the connectivity test says Info.
C17_ImpactLevelByCaller ==
    /\ \A r \in BatchReq : \A i \in 1..Len(req[r].calls) :
           /\ HighRows(r)[i].ai_urgency = "High"
           /\ req[r].calls[i].alert.impact_level = "Critical"
    /\ \A r \in ManualReq : \A i \in 1..Len(req[r].calls) :
           req[r].calls[i].alert.impact_level
               = (IF req[r].row[1].ai_urgency = "High" THEN "Critical" ELSE "Warning")
    /\ \A r \in TestReq : \A i \in 1..Len(req[r].calls) :
           req[r].calls[i].alert.impact_level = "Info"

\* the alert of a manually dispatched Low row says Warning
C17_Witness ==
    \E r \in ManualReq :
        /\ req[r].row[1].ai_urgency = "Low"
        /\ Len(req[r].calls) = 1
        /\ req[r].calls[1].alert.impact_level = "Warning"

\* number of failed attempts among the outcomes of a call
Failures(c) == Cardinality({ k \in 1..Len(c.outcomes) : ~ c.outcomes[k] })

\* C20: in every call the dispatcher has waited once after each failed
\* attempt; the first wait is the base delay (100 ms), each later wait is
\* twice the wait before it, so the wait after the failed attempt with
\* 0-based index i is 1, 2, 4 base delays for i = 0, 1, 2.
C20_BackoffDoubles ==
    \A c \in Calls :
        /\ Len(c.waits) = Failures(c)
        /\ \A i \in 1..Len(c.waits) :
               /\ i = 1 => c.waits[i] = 100
               /\ i > 1 => c.waits[i] = 2 * c.waits[i - 1]
        /\ \A i \in 1..Len(c.waits) : c.waits[i] = <<100, 200, 400>>[i]

\* a call whose three attempts failed has waited 100, 200 and 400 ms
C20_Witness ==
    \E c \in Calls :
        /\ c.outcomes = <<FALSE, FALSE, FALSE>>
        /\ c.waits = <<100, 200, 400>>

(***************************************************************************)
(* Properties of the ingestion, under SpecIngest.                          *)
(***************************************************************************)
\* some row of the file has no issue_description: no column, or an empty cell
LacksDescription(df) ==
    \E i \in 1..Len(df) :
        \/ "issue_description" \notin DOMAIN df[i]
        \/ df[i].issue_description = NaN

\* C18: a batch with a row that lacks issue_description is rejected before
\* any of its tickets is classified: once the file is read the request is
\* answered with a failure, no row has been classified, no alert is sent and
\* nothing of the batch is stored.
C18_IncompleteBatchRejectedFirst ==
    \A r \in BatchReq :
        (LacksDescription(req[r].df) /\ req[r].pc # "read") =>
            /\ req[r].pc = "done"
            /\ req[r].response.status_code # 200
            /\ req[r].classified = 0
            /\ req[r].calls = <<>>
            /\ req[r].results = <<>>

(***************************************************************************)
(* Properties of the backoff waits, under Spec.                            *)
(***************************************************************************)
\* number of failed attempts of a call that were followed by another attempt
FailuresFollowed(c) ==
    Cardinality({ k \in 1..Len(c.outcomes) : ~ c.outcomes[k] /\ k < c.attempts })

\* C21: the dispatcher waits only between attempts: a call that has returned
\* has waited once for each failed attempt that was followed by another
\* attempt, so a call whose 3 attempts all failed has waited exactly twice.
C21_WaitsOnlyBetweenAttempts ==
    \A c \in Calls :
        c.result # "pending" => Len(c.waits) = FailuresFollowed(c)

(***************************************************************************)
(* Properties of the flag read of a batch, under Spec.                     *)
(***************************************************************************)
\* C22: a batch handler reads the flag once, in the step in which it has
\* classified the whole batch and before its first alert; what it read never
\* changes afterwards, whatever toggles happen while its alerts are in
\* flight: a batch that read the flag as on sends the alerts of all its High
\* rows, a batch that read it as off sends none, and a toggle step leaves
\* the handler where it is.
C22_FlagReadOnce ==
    /\ [](\A r \in BatchReq :
              /\ req[r].enabled = "unread" =>
                     /\ req[r].results = <<>>
                     /\ req[r].calls = <<>>
              /\ req[r].enabled # "unread" =>
                     /\ req[r].classified = Len(req[r].df)
                     /\ Len(req[r].results) = Len(req[r].df)
              /\ req[r].enabled = "off" => req[r].calls = <<>> /\ req[r].pc = "done"
              /\ (req[r].enabled = "on" /\ req[r].pc = "done") =>
                     Len(req[r].calls) = Len(HighRows(r))
              /\ (req[r].enabled = "on" /\ req[r].pc # "done") =>
                     /\ req[r].pc \in {"post", "sleep"}
                     /\ Len(req[r].calls) + Len(req[r].pending) - 1 = Len(HighRows(r)))
    /\ [][\A r \in ServerReq :
              (req[r].kind = "classify" /\ req[r].enabled # "unread"
                  /\ req'[r].kind = "classify" /\ req'[r].df = req[r].df)
                  => req'[r].enabled = req[r].enabled]_vars
    /\ [][state'.slack_enabled # state.slack_enabled
              => \A r \in ServerReq : req'[r] = req[r]]_vars

\* a batch of two High tickets read the flag as on; the flag was switched
\* off while the handler sleeps after a failed attempt of the first alert,
\* the second alert still to come
C22_Witness ==
    /\ LastToggle.arg = <<FALSE>>
    /\ ~ state.slack_enabled
    /\ \E r \in BatchReq :
           /\ req[r].enabled = "on"
           /\ req[r].pc = "sleep"
           /\ Len(HighRows(r)) = 2
           /\ Len(req[r].calls) = 1
           /\ Len(req[r].pending) = 2

(***************************************************************************)
(* Properties of the stored results and stats, under SpecConcurrent.       *)
(***************************************************************************)
\* the batch requests among the concurrent requests
ConcurrentBatchReq == { r \in ConcurrentReq : req[r].kind = "classify" }

\* the stored results and stats are those of the batch of request r
StoredFrom(st, q) ==
    /\ q.kind = "classify"
    /\ q.classified = Len(q.df)
    /\ q.df # <<>>
    /\ st.results = <<q.results>>
    /\ st.stats = <<[total_tickets       |-> Len(q.results),
                     high_priority_count |-> Len(SelectSeq(q.results, IsHigh))]>>

\* C23: with two requests in flight, toggles and manual dispatches
\* interleaved, the stored results and the stored stats are both unset or
\* both those of one and the same batch; a step that changes one of them is
\* the step of a batch handler that writes both; a batch whose
\* classification fails, and every step of a toggle, of a manual dispatch
\* and of the dispatcher, leaves both as they are.
C23_ResultsAndStatsTogether ==
    /\ [](\/ state.results = <<>> /\ state.stats = <<>>
          \/ \E r \in ConcurrentBatchReq : StoredFrom(state, req[r]))
    /\ [][(state'.results # state.results \/ state'.stats # state.stats)
              => \E r \in ConcurrentReq :
                     /\ req[r].pc = "read"
                     /\ req'[r] # req[r]
                     /\ StoredFrom(state', req'[r])]_vars
    /\ [][\A r \in ConcurrentReq :
              (/\ req[r].pc = "read"
               /\ req'[r].pc = "done"
               /\ req'[r].classified < Len(req[r].df) \/ req[r].df = <<>>)
                  => /\ state'.results = state.results
                     /\ state'.stats = state.stats]_vars

\* one batch has stored its results and its alert is still in flight; the
\* other batch, uploaded meanwhile, has failed in classification: the stored
\* results and stats are still those of the first
C23_Witness ==
    \E r1, r2 \in ConcurrentBatchReq :
        /\ r1 # r2
        /\ req[r1].pc = "post"
        /\ StoredFrom(state, req[r1])
        /\ req[r2].pc = "done"
        /\ req[r2].response.status_code = 500
        /\ req[r2].results = <<>>

====
